---------------------------- MODULE Spec2Model ----------------------------
(***************************************************************************)
(* MemoryReportExtraction (socorro/processor/rules/memory_report_extraction*)
(* .py): the processor rule that turns the memory_report of a crash into   *)
(* the flat memory_measures mapping.                                       *)
(*                                                                         *)
(* Python dicts are TLA+ functions over strings (a missing key is a string *)
(* outside DOMAIN), Python strings are TLA+ strings handled character by   *)
(* character (Len, SubSeq and \o work on them), lists are sequences.       *)
(***************************************************************************)
EXTENDS Integers, Sequences, FiniteSets, TLC

\* Longest "reports" list of a memory report drawn by Init.
MaxLen == 3

\* Kinds of memory reporters, and the unit of a byte count.
KIND_NONHEAP == 0
KIND_HEAP == 1
UNITS_BYTES == 0

---------------------------------------------------------------------------
(* Python's str operations, as the interpreter computes them.              *)

\* s.startswith(prefix)
StartsWith(s, prefix) ==
    /\ Len(prefix) <= Len(s)
    /\ SubSeq(s, 1, Len(prefix)) = prefix

\* sub in s
Contains(s, sub) ==
    \E k \in 0..(Len(s) - Len(sub)) : SubSeq(s, k + 1, k + Len(sub)) = sub

\* s.replace(old, new), old a single character
RECURSIVE Replace(_, _, _)
Replace(s, old, new) ==
    IF s = "" THEN ""
    ELSE (IF SubSeq(s, 1, 1) = old THEN new ELSE SubSeq(s, 1, 1))
         \o Replace(SubSeq(s, 2, Len(s)), old, new)

\* f"(pid {pid})"
PidStr(p) == "(pid " \o ToString(p) \o ")"

\* d[k] = v on a dict
SetKey(d, k, v) == [x \in DOMAIN d \cup {k} |-> IF x = k THEN v ELSE d[x]]

---------------------------------------------------------------------------
(* Exceptions in flight.                                                   *)

NoExc == [type |-> "None", msg |-> ""]
ValueError(m) == [type |-> "ValueError", msg |-> m]
\* KeyError(key): str(e) is the repr of the key
KeyError(k) == [type |-> "KeyError", msg |-> "'" \o k \o "'"]

---------------------------------------------------------------------------
(* _get_memory_measures                                                    *)

metrics_measured ==
    [k \in {"gfx-textures", "ghost-windows", "heap-allocated",
            "host-object-urls", "private", "resident", "resident-unique",
            "system-heap-allocated", "vsize-max-contiguous", "vsize"} |-> 0]

metrics_derived ==
    [k \in {"explicit", "heap-overhead", "heap-unclassified", "images",
            "js-main-runtime", "top-none-detached"} |-> 0]

\* all_metrics = {}; all_metrics.update(metrics_measured);
\* all_metrics.update(metrics_derived)
AllMetricsInit ==
    [k \in DOMAIN metrics_measured \cup DOMAIN metrics_derived |->
        IF k \in DOMAIN metrics_derived THEN metrics_derived[k]
        ELSE metrics_measured[k]]

\* Faulty variant of AddTo: "=" for "+=".
AddToAssign(metrics, k, amount) == [metrics EXCEPT ![k] = amount]

\* all_metrics[k] += amount
AddTo(metrics, k, amount) == [metrics EXCEPT ![k] = @ + amount]

\* The locals of _get_memory_measures before the loop.
LocalsInit ==
    [pid_found |-> FALSE, explicit_heap |-> 0, explicit_nonheap |-> 0,
     all_metrics |-> AllMetricsInit, exc |-> NoExc]

\* Faulty variant of BadUnits: the units are never looked at.
BadUnitsNever(units) == FALSE

\* "if units != UNITS_BYTES: raise ValueError(...)"
BadUnits(units) == units # UNITS_BYTES

BadUnitsError(path, units) ==
    ValueError("bad units for an explicit/ report: " \o path \o ", "
               \o ToString(units))

BadKindError(path, kind) ==
    ValueError("bad kind for an explicit/ report: " \o path \o ", "
               \o ToString(kind))

\* Faulty variant of ExplicitBuckets: three independent ifs.
ExplicitBucketsAll(path) ==
    (IF StartsWith(path, "explicit/images/") THEN {"images"} ELSE {})
    \cup (IF Contains(path, "top(none)/detached") THEN {"top-none-detached"}
          ELSE {})
    \cup (IF StartsWith(path, "explicit/heap-overhead/") THEN {"heap-overhead"}
          ELSE {})

\* The if / elif / elif chain under the explicit/ branch: the derived
\* buckets the amount is added to (at most one: the first rule that matches).
ExplicitBuckets(path) ==
    IF StartsWith(path, "explicit/images/") THEN {"images"}
    ELSE IF Contains(path, "top(none)/detached") THEN {"top-none-detached"}
    ELSE IF StartsWith(path, "explicit/heap-overhead/") THEN {"heap-overhead"}
    ELSE {}

\* Faulty variant of IsMeasured: the lookup is made in all_metrics.
IsMeasuredOrDerived(path) ==
    path \in DOMAIN metrics_measured \cup DOMAIN metrics_derived

\* "elif path in metrics_measured"
IsMeasured(path) == path \in DOMAIN metrics_measured

\* Faulty variant of ExplicitBranch: the kind is checked before the units.
ExplicitBranchKindFirst(st, path, kind, units, amount) ==
    IF kind \notin {KIND_NONHEAP, KIND_HEAP}
    THEN [st EXCEPT !.exc = BadKindError(path, kind)]
    ELSE IF BadUnits(units) THEN [st EXCEPT !.exc = BadUnitsError(path, units)]
    ELSE LET bs == ExplicitBuckets(path)
         IN [st EXCEPT
               !.explicit_nonheap = IF kind = KIND_NONHEAP THEN @ + amount ELSE @,
               !.explicit_heap = IF kind = KIND_HEAP THEN @ + amount ELSE @,
               !.all_metrics = [k \in DOMAIN @ |->
                                  IF k \in bs THEN @[k] + amount ELSE @[k]]]

\* The explicit/ branch of the loop body, all five fields read.
ExplicitBranch(st, path, kind, units, amount) ==
    IF BadUnits(units) THEN [st EXCEPT !.exc = BadUnitsError(path, units)]
    ELSE IF kind \notin {KIND_NONHEAP, KIND_HEAP}
    THEN [st EXCEPT !.exc = BadKindError(path, kind)]
    ELSE LET bs == ExplicitBuckets(path)
         IN [st EXCEPT
               !.explicit_nonheap = IF kind = KIND_NONHEAP THEN @ + amount ELSE @,
               !.explicit_heap = IF kind = KIND_HEAP THEN @ + amount ELSE @,
               !.all_metrics = [k \in DOMAIN @ |->
                                  IF k \in bs THEN @[k] + amount ELSE @[k]]]

\* The classification of one report of the requested pid.
Classify(st, path, kind, units, amount) ==
    IF StartsWith(path, "explicit/")
    THEN ExplicitBranch(st, path, kind, units, amount)
    ELSE IF StartsWith(path, "js-main-runtime/")
    THEN [st EXCEPT !.all_metrics = AddTo(@, "js-main-runtime", amount)]
    ELSE IF IsMeasured(path)
    THEN [st EXCEPT !.all_metrics = AddTo(@, path, amount)]
    ELSE st

\* The first of the keys read after the pid check that the report lacks.
FirstMissing(report) ==
    IF "path" \notin DOMAIN report THEN "path"
    ELSE IF "kind" \notin DOMAIN report THEN "kind"
    ELSE IF "units" \notin DOMAIN report THEN "units"
    ELSE IF "amount" \notin DOMAIN report THEN "amount"
    ELSE ""

\* Faulty variant of PidMatches: the marker must open the process label.
PidMatchesPrefix(process, pid_str) == StartsWith(process, pid_str)

\* Faulty variant of PidMatches: the marker is looked for without its "(pid " part.
PidMatchesSuffix(process, pid_str) ==
    Contains(process, SubSeq(pid_str, 6, Len(pid_str)))

\* "if pid_str not in process: continue" is the negation of this.
PidMatches(process, pid_str) == Contains(process, pid_str)

\* One iteration of "for report in memory_report['reports']": the locals after
\* it, exc set when the iteration raises.
LoopBody(st, report, pid_str) ==
    IF "process" \notin DOMAIN report THEN [st EXCEPT !.exc = KeyError("process")]
    ELSE IF ~PidMatches(report["process"], pid_str) THEN st
    ELSE LET found == [st EXCEPT !.pid_found = TRUE]
         IN IF FirstMissing(report) # ""
            THEN [found EXCEPT !.exc = KeyError(FirstMissing(report))]
            ELSE Classify(found, report["path"], report["kind"],
                          report["units"], report["amount"])

\* "if not pid_found: raise ValueError(...)"
NotFoundError(p) == ValueError("no measurements found for pid " \o ToString(p))

\* Faulty variant of Derive: the two accumulators are swapped.
DeriveSwapped(st) ==
    [st.all_metrics EXCEPT
        !["heap-unclassified"] = st.all_metrics["heap-allocated"] - st.explicit_nonheap,
        !["explicit"] = st.all_metrics["heap-allocated"] + st.explicit_heap]

\* all_metrics after the two derived values are stored.
Derive(st) ==
    [st.all_metrics EXCEPT
        !["heap-unclassified"] = st.all_metrics["heap-allocated"] - st.explicit_heap,
        !["explicit"] = st.all_metrics["heap-allocated"] + st.explicit_nonheap]

\* key.replace("-", "_") of every key of all_metrics.
Underscored == [k \in DOMAIN AllMetricsInit |-> Replace(k, "-", "_")]

\* Faulty variant of RenameKeys: the keys are returned as they are.
RenameKeysNot(metrics) == metrics

\* {key.replace("-", "_"): val for key, val in all_metrics.items()}
\* (no two keys of all_metrics are renamed to the same key)
RenameKeys(metrics) ==
    LET items == {<<Underscored[k], metrics[k]>> : k \in DOMAIN metrics}
    IN [k2 \in {it[1] : it \in items} |->
          (CHOOSE it \in items : it[1] = k2)[2]]

\* The locals after the reports from position n on were scanned, the scan
\* stopping at the first iteration that raises.
RECURSIVE Scan(_, _, _, _)
Scan(st, reports, n, pid_str) ==
    IF n > Len(reports) \/ st.exc # NoExc THEN st
    ELSE Scan(LoopBody(st, reports[n], pid_str), reports, n + 1, pid_str)

\* The code after the loop: the returned mapping, or the not-found error.
AfterLoop(st, p) ==
    IF ~st.pid_found THEN [exc |-> NotFoundError(p), value |-> <<>>]
    ELSE [exc |-> NoExc, value |-> RenameKeys(Derive(st))]

\* _get_memory_measures(memory_report, pid): [exc, value], value the returned
\* mapping when exc = NoExc.
get_memory_measures(memory_report, p) ==
    LET st == Scan(LocalsInit, memory_report["reports"], 1, PidStr(p))
    IN IF st.exc # NoExc THEN [exc |-> st.exc, value |-> <<>>]
       ELSE AfterLoop(st, p)

---------------------------------------------------------------------------
(* predicate                                                               *)

\* A KeyError inside the conjunction makes the predicate False.
predicate(crash) ==
    IF "json_dump" \notin DOMAIN crash THEN FALSE
    ELSE /\ "pid" \in DOMAIN crash["json_dump"]
         /\ IF "memory_report" \notin DOMAIN crash THEN FALSE
            ELSE /\ DOMAIN crash["memory_report"] # {}
                 /\ "version" \in DOMAIN crash["memory_report"]
                 /\ "reports" \in DOMAIN crash["memory_report"]
                 /\ "hasMozMallocUsableSize" \in DOMAIN crash["memory_report"]

---------------------------------------------------------------------------
(* The rule at work on one processed crash.                                *)

VARIABLES
    processed_crash,   \* the document the rule reads and writes
    crash0,            \* history: processed_crash as handed to the rule
    pc,                \* "predicate", "action", "loop", "except", "store",
                       \* "done", "skipped", "propagated"
    pid,               \* action's local
    i,                 \* reports the loop has taken
    pid_found, explicit_heap, explicit_nonheap, all_metrics,
    exc,               \* the exception raised by _get_memory_measures
    measures,          \* action's local, the returned mapping
    logged             \* the messages given to logger.info

vars == <<processed_crash, crash0, pc, pid, i, pid_found, explicit_heap,
          explicit_nonheap, all_metrics, exc, measures, logged>>

Locals ==
    [pid_found |-> pid_found, explicit_heap |-> explicit_heap,
     explicit_nonheap |-> explicit_nonheap, all_metrics |-> all_metrics,
     exc |-> exc]

SetLocals(st) ==
    /\ pid_found' = st.pid_found
    /\ explicit_heap' = st.explicit_heap
    /\ explicit_nonheap' = st.explicit_nonheap
    /\ all_metrics' = st.all_metrics
    /\ exc' = st.exc

Reports == processed_crash["memory_report"]["reports"]

\* The rule is applied: predicate() decides whether action() runs.
RunPredicate ==
    /\ pc = "predicate"
    /\ pc' = IF predicate(processed_crash) THEN "action" ELSE "skipped"
    /\ UNCHANGED <<processed_crash, crash0, pid, i, pid_found, explicit_heap,
                   explicit_nonheap, all_metrics, exc, measures, logged>>

\* action() up to the call, and _get_memory_measures up to its loop.
ActionCall ==
    /\ pc = "action"
    /\ pid' = processed_crash["json_dump"]["pid"]
    /\ SetLocals(LocalsInit)
    /\ i' = 0
    /\ pc' = "loop"
    /\ UNCHANGED <<processed_crash, crash0, measures, logged>>

\* One iteration of the loop over memory_report["reports"].
LoopStep ==
    /\ pc = "loop"
    /\ i < Len(Reports)
    /\ LET st == LoopBody(Locals, Reports[i + 1], PidStr(pid))
       IN /\ SetLocals(st)
          /\ pc' = IF st.exc # NoExc THEN "except" ELSE "loop"
    /\ i' = i + 1
    /\ UNCHANGED <<processed_crash, crash0, pid, measures, logged>>

\* The loop is over: the not-found error, or the derived values, the renamed
\* mapping and the return to action().
LoopEnd ==
    /\ pc = "loop"
    /\ i = Len(Reports)
    /\ LET r == AfterLoop(Locals, pid)
       IN IF r.exc # NoExc
          THEN /\ exc' = r.exc
               /\ pc' = "except"
               /\ UNCHANGED <<all_metrics, measures>>
          ELSE /\ all_metrics' = Derive(Locals)
               /\ measures' = r.value
               /\ pc' = "store"
               /\ UNCHANGED exc
    /\ UNCHANGED <<processed_crash, crash0, pid, i, pid_found, explicit_heap,
                   explicit_nonheap, logged>>

\* Faulty variant of ActionExcept: only "except ValueError" is there.
ActionExceptValueError ==
    /\ pc = "except"
    /\ IF exc.type = "ValueError"
       THEN /\ logged' = Append(logged,
                   "Unable to extract measurements from memory report: "
                   \o exc.msg)
            /\ pc' = "done"
       ELSE /\ pc' = "propagated"
            /\ UNCHANGED logged
    /\ UNCHANGED <<processed_crash, crash0, pid, i, pid_found, explicit_heap,
                   explicit_nonheap, all_metrics, exc, measures>>

\* "except ValueError as e" and "except KeyError as e": log and return. Any
\* other exception leaves action().
ActionExcept ==
    /\ pc = "except"
    /\ IF exc.type = "ValueError"
       THEN /\ logged' = Append(logged,
                   "Unable to extract measurements from memory report: "
                   \o exc.msg)
            /\ pc' = "done"
       ELSE IF exc.type = "KeyError"
       THEN /\ logged' = Append(logged,
                   "Unable to extract measurements from memory report: key "
                   \o exc.msg \o " is missing from a report")
            /\ pc' = "done"
       ELSE /\ pc' = "propagated"
            /\ UNCHANGED logged
    /\ UNCHANGED <<processed_crash, crash0, pid, i, pid_found, explicit_heap,
                   explicit_nonheap, all_metrics, exc, measures>>

\* processed_crash["memory_measures"] = measures
ActionStore ==
    /\ pc = "store"
    /\ processed_crash' = SetKey(processed_crash, "memory_measures", measures)
    /\ pc' = "done"
    /\ UNCHANGED <<crash0, pid, i, pid_found, explicit_heap, explicit_nonheap,
                   all_metrics, exc, measures, logged>>

Next ==
    \/ RunPredicate
    \/ ActionCall
    \/ LoopStep
    \/ LoopEnd
    \/ ActionExcept
    \/ ActionStore

---------------------------------------------------------------------------
(* Inputs.                                                                 *)

\* The process labels of a two-process report, and the pids a crash names.
Pids == {7, 17}
ProcessOf(p) == IF p = 7 THEN "Main Process (pid 7)" ELSE "Web Content (pid 17)"

\* One entry of memory_report["reports"].
Rec(process, path, kind, units, amount) ==
    [process |-> process, path |-> path, kind |-> kind, units |-> units,
     amount |-> amount]

\* The entry without one of its keys.
DropKey(r, key) == [x \in DOMAIN r \ {key} |-> r[x]]

SeqsUpTo(S, n) == UNION {[1..m -> S] : m \in 0..n}

\* A processed crash that passes the predicate.
Crash(p, reports) ==
    [json_dump |-> [pid |-> p],
     memory_report |-> [version |-> 1, hasMozMallocUsableSize |-> TRUE,
                        reports |-> reports]]

\* Processed crashes the predicate turns away.
RejectedCrashes ==
    { [json_dump |-> [pid |-> 7]],
      [memory_report |-> Crash(7, <<>>)["memory_report"]],
      [json_dump |-> <<>>, memory_report |-> Crash(7, <<>>)["memory_report"]],
      [json_dump |-> [pid |-> 7], memory_report |-> <<>>],
      [json_dump |-> [pid |-> 7],
       memory_report |-> [version |-> 1, hasMozMallocUsableSize |-> TRUE]],
      [json_dump |-> [pid |-> 7],
       memory_report |-> [hasMozMallocUsableSize |-> TRUE, reports |-> <<>>]],
      [json_dump |-> [pid |-> 7],
       memory_report |-> [version |-> 1, reports |-> <<>>]] }

InitWith(crashes) ==
    /\ processed_crash \in crashes
    /\ crash0 = processed_crash
    /\ pc = "predicate"
    /\ pid = 0
    /\ i = 0
    /\ pid_found = FALSE
    /\ explicit_heap = 0
    /\ explicit_nonheap = 0
    /\ all_metrics = <<>>
    /\ exc = NoExc
    /\ measures = <<>>
    /\ logged = <<>>

\* Reports of both processes: a well-formed explicit/ entry, entries with a
\* bad kind, bad units and both, a measured path, an unrecognised path whose
\* kind and units are never looked at, and two entries that lack a key.
MixedRecords ==
    { Rec(ProcessOf(p), s[1], s[2], s[3], s[4]) :
        p \in Pids,
        s \in { <<"explicit/a", KIND_HEAP, UNITS_BYTES, 1>>,
                <<"explicit/b", 2, UNITS_BYTES, 1>>,
                <<"explicit/c", KIND_HEAP, 1, 1>>,
                <<"explicit/d", 2, 1, 1>>,
                <<"heap-allocated", KIND_HEAP, UNITS_BYTES, 4>>,
                <<"zone/unknown", 2, 1, 8>> } }
    \cup { DropKey(Rec(ProcessOf(7), "explicit/e", KIND_HEAP, 1, 1), k) :
            k \in {"process", "amount"} }

Init == InitWith({Crash(p, rs) : p \in Pids, rs \in SeqsUpTo(MixedRecords, MaxLen)}
                 \cup RejectedCrashes)

Spec == Init /\ [][Next]_vars

\* Reports about the explicit/ tree of process 7: every derived-bucket rule
\* alone and overlapping, of both kinds, the paths next to heap-allocated, one
\* entry of another process, one with bad units and one that lacks a key.
ExplicitRecords ==
    { Rec(ProcessOf(7), path, kind, UNITS_BYTES, kind + 1) :
        path \in { "explicit/images/top(none)/detached/x",
                   "explicit/images/a",
                   "explicit/window/top(none)/detached/x",
                   "explicit/heap-overhead/top(none)/detached",
                   "explicit/heap-overhead/x" },
        kind \in {KIND_NONHEAP, KIND_HEAP} }
    \cup { Rec(ProcessOf(7), "explicit/heap-allocated", KIND_HEAP, UNITS_BYTES, 3),
           Rec(ProcessOf(7), "heap-allocated", KIND_NONHEAP, UNITS_BYTES, 1),
           Rec(ProcessOf(7), "explicit", KIND_HEAP, UNITS_BYTES, 5),
           Rec(ProcessOf(7), "heap-unclassified", KIND_HEAP, UNITS_BYTES, 5),
           Rec(ProcessOf(17), "explicit/images/a", KIND_HEAP, UNITS_BYTES, 7),
           Rec(ProcessOf(7), "explicit/images/a", KIND_HEAP, 2, 1),
           DropKey(Rec(ProcessOf(7), "explicit/images/a", KIND_HEAP, 0, 1), "kind") }

InitExplicit ==
    InitWith({Crash(7, rs) : rs \in SeqsUpTo(ExplicitRecords, MaxLen)}
             \cup RejectedCrashes)

SpecExplicit == InitExplicit /\ [][Next]_vars

\* Reports about the measured paths of process 7, with kinds and units of every
\* sort, paths that only look like a bucket name, one entry of another process,
\* one explicit/ entry with a bad kind and one entry that lacks a key.
MeasuredRecords ==
    { Rec(ProcessOf(7), s[1], s[2], s[3], s[4]) :
        s \in { <<"gfx-textures", KIND_NONHEAP, UNITS_BYTES, 1>>,
                <<"ghost-windows", 2, 1, 2>>,
                <<"heap-allocated", 2, UNITS_BYTES, 3>>,
                <<"host-object-urls", 2, 1, 1>>,
                <<"private", KIND_NONHEAP, UNITS_BYTES, 2>>,
                <<"resident", KIND_NONHEAP, UNITS_BYTES, 3>>,
                <<"resident-unique", KIND_NONHEAP, UNITS_BYTES, 1>>,
                <<"system-heap-allocated", 2, UNITS_BYTES, 2>>,
                <<"vsize-max-contiguous", KIND_NONHEAP, UNITS_BYTES, 3>>,
                <<"vsize", KIND_NONHEAP, 1, 1>>,
                <<"js-main-runtime/gc-heap", KIND_HEAP, 3, 2>>,
                <<"js-main-runtime", KIND_HEAP, UNITS_BYTES, 3>>,
                <<"images", KIND_HEAP, UNITS_BYTES, 1>>,
                <<"resident_unique", KIND_NONHEAP, UNITS_BYTES, 2>>,
                <<"explicit/x", 2, UNITS_BYTES, 1>> } }
    \cup { Rec(ProcessOf(17), "resident", KIND_NONHEAP, UNITS_BYTES, 4),
           DropKey(Rec(ProcessOf(7), "vsize", KIND_NONHEAP, UNITS_BYTES, 1), "path") }

InitMeasured ==
    InitWith({Crash(7, rs) : rs \in SeqsUpTo(MeasuredRecords, MaxLen)}
             \cup RejectedCrashes)

SpecMeasured == InitMeasured /\ [][Next]_vars

\* Reports to be reordered: entries of process 7 that add to the same and to
\* different values, entries that stop the scan each in its own way, an entry
\* of another process and one no rule matches.
OrderRecords ==
    { Rec(ProcessOf(7), s[1], s[2], s[3], s[4]) :
        s \in { <<"explicit/a", KIND_HEAP, UNITS_BYTES, 1>>,
                <<"heap-allocated", KIND_HEAP, UNITS_BYTES, 4>>,
                <<"heap-allocated", KIND_NONHEAP, UNITS_BYTES, 2>>,
                <<"js-main-runtime/gc-heap", KIND_HEAP, UNITS_BYTES, 3>>,
                <<"explicit/b", 2, UNITS_BYTES, 1>>,
                <<"explicit/c", KIND_HEAP, 1, 1>>,
                <<"zone/unknown", 2, 1, 8>> } }
    \cup { Rec(ProcessOf(17), "explicit/c", KIND_HEAP, 1, 1) }
    \cup { DropKey(Rec(ProcessOf(7), "explicit/e", KIND_HEAP, 1, 1), k) :
            k \in {"process", "amount"} }

InitOrder ==
    InitWith({Crash(7, rs) : rs \in SeqsUpTo(OrderRecords, MaxLen)}
             \cup RejectedCrashes)

SpecOrder == InitOrder /\ [][Next]_vars

---------------------------------------------------------------------------
(* What the properties below speak about.                                  *)

\* The pid the crash names (of a crash that passed the predicate).
ReqPid == crash0["json_dump"]["pid"]

\* The report list handed to the rule.
Reports0 == crash0["memory_report"]["reports"]

\* The call of _get_memory_measures has just ended: it raised or returned.
Finished == pc \in {"except", "store"}
Succeeded == pc = "store"
Failed == pc = "except"

AllKeys == {"process", "path", "kind", "units", "amount"}
Complete(r) == AllKeys \subseteq DOMAIN r

\* r carries the marker "(pid <p>)" in its process field.
OfPid(r, p) == "process" \in DOMAIN r /\ Contains(r["process"], PidStr(p))

\* The positions of a report list whose entry satisfies Sel.
Where(reports, Sel(_)) == {n \in 1..Len(reports) : Sel(reports[n])}

Min(S) == CHOOSE n \in S : \A m \in S : n <= m

\* The sum of the amounts at the positions in I.
RECURSIVE SumAt(_, _)
SumAt(reports, I) ==
    IF I = {} THEN 0
    ELSE LET n == CHOOSE m \in I : TRUE
         IN reports[n]["amount"] + SumAt(reports, I \ {n})

\* An entry of the requested pid under explicit/.
ExplicitOf(r, p) ==
    OfPid(r, p) /\ "path" \in DOMAIN r /\ StartsWith(r["path"], "explicit/")

\* The scan cannot get past r: r has no process field, or belongs to the
\* requested pid and lacks a field, or is an explicit/ entry of the requested
\* pid with units other than bytes or a kind other than heap and non-heap.
AbortsScan(r, p) ==
    \/ "process" \notin DOMAIN r
    \/ /\ OfPid(r, p)
       /\ \/ ~Complete(r)
          \/ /\ StartsWith(r["path"], "explicit/")
             /\ \/ r["units"] # UNITS_BYTES
                \/ r["kind"] \notin {KIND_NONHEAP, KIND_HEAP}

\* The 16 names of the returned mapping: 10 measured, 6 derived.
MeasuredNames ==
    {"gfx_textures", "ghost_windows", "heap_allocated", "host_object_urls",
     "private", "resident", "resident_unique", "system_heap_allocated",
     "vsize_max_contiguous", "vsize"}
DerivedNames ==
    {"explicit", "heap_overhead", "heap_unclassified", "images",
     "js_main_runtime", "top_none_detached"}

---------------------------------------------------------------------------
\* C1: every mapping _get_memory_measures returns has exactly the 16 fixed
\* keys (10 measured, 6 derived, underscored): none is missing, none is extra,
\* none contains a dash, whatever the reports were.
C1_KeySet ==
    Succeeded =>
        /\ DOMAIN measures = MeasuredNames \cup DerivedNames
        /\ Cardinality(DOMAIN measures) = 16
        /\ \A k \in DOMAIN measures : ~Contains(k, "-")

\* A successful call to which no report contributed anything.
C1_Witness ==
    /\ Succeeded
    /\ Len(Reports0) > 0
    /\ \A k \in DOMAIN measures : measures[k] = 0

---------------------------------------------------------------------------
\* The measured paths with their returned names.
MeasuredPaths ==
    { <<"gfx-textures", "gfx_textures">>, <<"ghost-windows", "ghost_windows">>,
      <<"heap-allocated", "heap_allocated">>,
      <<"host-object-urls", "host_object_urls">>, <<"private", "private">>,
      <<"resident", "resident">>, <<"resident-unique", "resident_unique">>,
      <<"system-heap-allocated", "system_heap_allocated">>,
      <<"vsize-max-contiguous", "vsize_max_contiguous">>, <<"vsize", "vsize">> }

\* An entry of the requested pid whose path no rule matches.
Unrecognised(r, p) ==
    /\ OfPid(r, p)
    /\ "path" \in DOMAIN r
    /\ ~StartsWith(r["path"], "explicit/")
    /\ ~StartsWith(r["path"], "js-main-runtime/")
    /\ r["path"] \notin {m[1] : m \in MeasuredPaths}

\* C9: in every successful result each measured value is the sum of the
\* amounts of the requested pid's entries whose path is exactly the measured
\* name, whatever their kind and units; js_main_runtime is the sum over the
\* paths that start with js-main-runtime/; and the entries whose path no rule
\* matches change nothing: the result is the one of the report without them
\* (all zeros when nothing else belongs to the pid).
C9_MeasuredSums ==
    Succeeded =>
        /\ \A m \in MeasuredPaths :
              measures[m[2]] =
                 SumAt(Reports0, Where(Reports0,
                     LAMBDA r : OfPid(r, ReqPid) /\ r["path"] = m[1]))
        /\ measures["js_main_runtime"] =
              SumAt(Reports0, Where(Reports0,
                  LAMBDA r : OfPid(r, ReqPid)
                             /\ StartsWith(r["path"], "js-main-runtime/")))
        /\ LET kept == SelectSeq(Reports0, LAMBDA r : ~Unrecognised(r, ReqPid))
           IN IF \E n \in 1..Len(kept) : OfPid(kept[n], ReqPid)
              THEN measures =
                     get_memory_measures([reports |-> kept], ReqPid).value
              ELSE \A k \in DOMAIN measures : measures[k] = 0

\* A successful call on a report with a measured entry whose kind and units
\* are neither heap/non-heap nor bytes, a js-main-runtime/ entry, and an entry
\* whose path is the name of a derived bucket.
C9_Witness ==
    /\ Succeeded
    /\ measures["ghost_windows"] > 0
    /\ measures["js_main_runtime"] > 0
    /\ \E n \in 1..Len(Reports0) :
          /\ Unrecognised(Reports0[n], ReqPid)
          /\ Reports0[n]["path"] \in {"images", "js-main-runtime"}

---------------------------------------------------------------------------
\* The sum of the amounts of the requested pid's explicit/ entries that
\* satisfy Sel.
ExplicitSum(Sel(_)) ==
    SumAt(Reports0, Where(Reports0,
        LAMBDA r : ExplicitOf(r, ReqPid) /\ Sel(r)))

InImages(r) == StartsWith(r["path"], "explicit/images/")
InDetached(r) == Contains(r["path"], "top(none)/detached")
InHeapOverhead(r) == StartsWith(r["path"], "explicit/heap-overhead/")

\* C2 as stated: the three derived-bucket rules apply independently of each
\* other, so that an entry under explicit/images/ whose path contains
\* top(none)/detached counts in images and in top_none_detached.
C2_AsStated ==
    Succeeded =>
        /\ measures["images"] = ExplicitSum(InImages)
        /\ measures["top_none_detached"] = ExplicitSum(InDetached)
        /\ measures["heap_overhead"] = ExplicitSum(InHeapOverhead)

\* C2 amended: the three rules are tried in the order images,
\* top-none-detached, heap-overhead and only the first that matches applies:
\* an explicit/ entry counts in images if its path starts with
\* explicit/images/; otherwise in top_none_detached if its path contains
\* top(none)/detached; otherwise in heap_overhead if its path starts with
\* explicit/heap-overhead/.
C2_FirstMatch ==
    Succeeded =>
        /\ measures["images"] = ExplicitSum(InImages)
        /\ measures["top_none_detached"] =
              ExplicitSum(LAMBDA r : InDetached(r) /\ ~InImages(r))
        /\ measures["heap_overhead"] =
              ExplicitSum(LAMBDA r : InHeapOverhead(r) /\ ~InDetached(r))

\* A successful call on a report with an entry of the requested pid under
\* explicit/images/ whose path contains top(none)/detached.
C2_Witness ==
    /\ Succeeded
    /\ \E n \in 1..Len(Reports0) :
          /\ ExplicitOf(Reports0[n], ReqPid)
          /\ InImages(Reports0[n])
          /\ InDetached(Reports0[n])
    /\ measures["images"] > 0

\* C5: in every successful result heap_unclassified is heap_allocated minus
\* the amounts of the requested pid's explicit/ entries of kind HEAP, explicit
\* is heap_allocated plus those of kind NONHEAP, and heap_allocated counts the
\* entries whose path is exactly heap-allocated and no other (not explicit,
\* heap-unclassified or explicit/heap-allocated). A negative heap_unclassified
\* is no failure: the call succeeds whenever an entry belongs to the pid and
\* no entry stops the scan.
C5_DerivedValues ==
    /\ Succeeded =>
          /\ measures["heap_allocated"] =
                SumAt(Reports0, Where(Reports0,
                    LAMBDA r : OfPid(r, ReqPid) /\ r["path"] = "heap-allocated"))
          /\ measures["heap_unclassified"] =
                measures["heap_allocated"]
                - ExplicitSum(LAMBDA r : r["kind"] = KIND_HEAP)
          /\ measures["explicit"] =
                measures["heap_allocated"]
                + ExplicitSum(LAMBDA r : r["kind"] = KIND_NONHEAP)
    /\ ( /\ Finished
         /\ \E n \in 1..Len(Reports0) : OfPid(Reports0[n], ReqPid)
         /\ \A n \in 1..Len(Reports0) : ~AbortsScan(Reports0[n], ReqPid) )
       => Succeeded

\* A successful call whose heap_unclassified is negative, on a report with an
\* explicit/heap-allocated entry.
C5_Witness ==
    /\ Succeeded
    /\ measures["heap_unclassified"] < 0
    /\ measures["explicit"] > measures["heap_allocated"]
    /\ \E n \in 1..Len(Reports0) :
          /\ OfPid(Reports0[n], ReqPid)
          /\ Reports0[n]["path"] = "explicit/heap-allocated"

---------------------------------------------------------------------------
\* What the call of _get_memory_measures gave: the exception or the mapping.
Outcome ==
    IF Failed THEN [exc |-> exc, value |-> <<>>]
    ELSE [exc |-> NoExc, value |-> measures]

\* The call failed with "no measurements found for pid ...".
NotFound ==
    /\ Failed
    /\ exc.type = "ValueError"
    /\ StartsWith(exc.msg, "no measurements found for pid")

\* An explicit/ entry (with all its fields) with units other than bytes, of
\* whatever process.
NonByteExplicit(r) ==
    /\ Complete(r)
    /\ StartsWith(r["path"], "explicit/")
    /\ r["units"] # UNITS_BYTES

\* No entry before position n stops the scan.
CleanBefore(n) == \A m \in 1..(n - 1) : ~AbortsScan(Reports0[m], ReqPid)

\* An entry with all its fields that, under explicit/, has byte units and a
\* heap or non-heap kind.
WellFormed(r) ==
    /\ Complete(r)
    /\ StartsWith(r["path"], "explicit/") =>
          (r["units"] = UNITS_BYTES /\ r["kind"] \in {KIND_NONHEAP, KIND_HEAP})

\* C3 as stated: whenever the report holds one explicit/ entry with non-byte
\* units (all its other entries being well-formed), the call fails with a
\* ValueError that names the path of that entry.
C3_AsStated ==
    Finished =>
        \A n \in Where(Reports0, NonByteExplicit) :
            (\A m \in 1..Len(Reports0) : m # n => WellFormed(Reports0[m])) =>
                /\ Failed
                /\ exc.type = "ValueError"
                /\ Contains(exc.msg, Reports0[n]["path"])

\* C3 amended: whenever the report holds an explicit/ entry of the requested
\* pid with non-byte units, the call fails and returns no mapping; when no
\* earlier entry stops the scan (by a missing field, bad units or a bad kind),
\* the failure is raised at that entry and is the ValueError "bad units ..."
\* naming its path.
C3_RequestedPidFirst ==
    Finished =>
        \A n \in Where(Reports0,
                     LAMBDA r : NonByteExplicit(r) /\ OfPid(r, ReqPid)) :
            /\ Failed
            /\ measures = <<>>
            /\ CleanBefore(n) =>
                  /\ i = n
                  /\ exc.type = "ValueError"
                  /\ StartsWith(exc.msg, "bad units for an explicit/ report")
                  /\ Contains(exc.msg, Reports0[n]["path"])

\* The call failed on bad units at an entry that follows other entries.
C3_Witness ==
    /\ Failed
    /\ i >= 2
    /\ NonByteExplicit(Reports0[i])
    /\ OfPid(Reports0[i], ReqPid)
    /\ StartsWith(exc.msg, "bad units for an explicit/ report")
    /\ Contains(exc.msg, Reports0[i]["path"])

\* C4 as stated: the call fails with the not-found error exactly when no
\* entry has a process field with the marker of the requested pid.
C4_AsStated ==
    Finished =>
        (NotFound <=> ~\E n \in 1..Len(Reports0) : OfPid(Reports0[n], ReqPid))

\* C4 amended: the call fails with the not-found error exactly when every
\* entry has a process field and none of them holds the marker of the
\* requested pid (an entry without a process field fails the call with a
\* KeyError instead); when an entry holds the marker, even if every such entry
\* has a path that no rule matches, the call does not fail that way, and in
\* that last case it succeeds with all values 0.
C4_NotFoundIff ==
    Finished =>
        /\ NotFound <=>
              \A n \in 1..Len(Reports0) :
                  /\ "process" \in DOMAIN Reports0[n]
                  /\ ~OfPid(Reports0[n], ReqPid)
        /\ ( /\ \E n \in 1..Len(Reports0) : OfPid(Reports0[n], ReqPid)
             /\ \A n \in 1..Len(Reports0) :
                   /\ "process" \in DOMAIN Reports0[n]
                   /\ OfPid(Reports0[n], ReqPid) =>
                         (Complete(Reports0[n]) /\ Unrecognised(Reports0[n], ReqPid)) )
           => (Succeeded /\ \A k \in DOMAIN measures : measures[k] = 0)

\* The not-found failure on a report that is not empty.
C4_Witness ==
    /\ NotFound
    /\ Len(Reports0) >= 2
    /\ i = Len(Reports0)

\* C6: action() lets no failure of the extraction out and shows no partial
\* result. processed_crash is untouched until action() is over; then, when an
\* entry stops the scan (bad units, bad kind, a missing key) or no entry
\* belongs to the pid, processed_crash is still the document handed in, with
\* no memory_measures; otherwise it is that document plus memory_measures,
\* the complete mapping _get_memory_measures returns. No exception leaves
\* action().
C6_SoftFailure ==
    /\ pc # "propagated"
    /\ pc \notin {"done", "skipped"} => processed_crash = crash0
    /\ pc = "done" =>
          IF \/ \E n \in 1..Len(Reports0) : AbortsScan(Reports0[n], ReqPid)
             \/ ~\E n \in 1..Len(Reports0) : OfPid(Reports0[n], ReqPid)
          THEN /\ processed_crash = crash0
               /\ "memory_measures" \notin DOMAIN processed_crash
               /\ Len(logged) = 1
          ELSE /\ DOMAIN processed_crash = DOMAIN crash0 \cup {"memory_measures"}
               /\ \A k \in DOMAIN crash0 : processed_crash[k] = crash0[k]
               /\ processed_crash["memory_measures"] =
                     get_memory_measures(crash0["memory_report"], ReqPid).value
               /\ DOMAIN processed_crash["memory_measures"] =
                     MeasuredNames \cup DerivedNames
               /\ logged = <<>>

\* action() is over after a KeyError: nothing was stored, one line was logged.
C6_Witness ==
    /\ pc = "done"
    /\ exc.type = "KeyError"
    /\ processed_crash = crash0
    /\ Len(logged) = 1

\* An entry that names another process.
OtherPid(r, p) == "process" \in DOMAIN r /\ ~Contains(r["process"], PidStr(p))

\* C7: the entries of other processes have no influence: the call gives what
\* it gives on the report without the entries whose process field lacks the
\* marker of the requested pid, the same mapping or the same failure.
C7_OtherPidsIgnored ==
    Finished =>
        Outcome =
          get_memory_measures(
              [reports |-> SelectSeq(Reports0, LAMBDA r : ~OtherPid(r, ReqPid))],
              ReqPid)

\* A successful call with a value set, on a report that holds an explicit/
\* entry of another process with bad units or a bad kind.
C7_Witness ==
    /\ Succeeded
    /\ \E k \in DOMAIN measures : measures[k] > 0
    /\ \E n \in 1..Len(Reports0) :
          /\ OtherPid(Reports0[n], ReqPid)
          /\ Complete(Reports0[n])
          /\ StartsWith(Reports0[n]["path"], "explicit/")
          /\ \/ Reports0[n]["units"] # UNITS_BYTES
             \/ Reports0[n]["kind"] \notin {KIND_NONHEAP, KIND_HEAP}

\* The orders of n entries, for every length of a report.
Perms ==
    [n \in 0..MaxLen |->
        {f \in [1..n -> 1..n] : \A a, b \in 1..n : f[a] = f[b] => a = b}]

Malformed(r) ==
    /\ Complete(r)
    /\ ExplicitOf(r, ReqPid)
    /\ \/ r["units"] # UNITS_BYTES
       \/ r["kind"] \notin {KIND_NONHEAP, KIND_HEAP}

\* The call stopped at entry n with the ValueError that names n's path, for
\* the units if they are bad and else for the kind.
StoppedAt(n) ==
    /\ Failed
    /\ i = n
    /\ exc.type = "ValueError"
    /\ Contains(exc.msg, Reports0[n]["path"])
    /\ StartsWith(exc.msg,
          IF Reports0[n]["units"] # UNITS_BYTES
          THEN "bad units for an explicit/ report"
          ELSE "bad kind for an explicit/ report")

\* C10 as stated: when the report holds malformed explicit/ entries of the
\* requested pid, the call stops at the first of them in list order, with the
\* failure that names its path (bad units before bad kind).
C10_AsStated ==
    Finished =>
        (Where(Reports0, Malformed) # {}
            => StoppedAt(Min(Where(Reports0, Malformed))))

\* An entry that makes the scan raise KeyError: it lacks the process field, or
\* belongs to the requested pid and lacks another field.
LacksKey(r) ==
    "process" \notin DOMAIN r \/ (OfPid(r, ReqPid) /\ ~Complete(r))

\* C10 amended: when the report holds malformed explicit/ entries of the
\* requested pid, the call fails without a mapping and takes no entry after
\* the first of them; it stops at that first one, with the failure that names
\* its path (bad units before bad kind), provided no entry before it lacks a
\* field the scan reads (such an entry stops the call there with a KeyError).
C10_FirstMalformed ==
    Finished =>
        LET M == Where(Reports0, Malformed)
        IN M # {} =>
              /\ Failed
              /\ measures = <<>>
              /\ i <= Min(M)
              /\ (\A m \in 1..(Min(M) - 1) : ~LacksKey(Reports0[m]))
                    => StoppedAt(Min(M))

\* The call stopped at the first of two malformed entries, one with bad units
\* and a bad kind that follows a well-formed entry and is reported for its
\* units.
C10_Witness ==
    /\ Failed
    /\ Cardinality(Where(Reports0, Malformed)) >= 2
    /\ i = 2
    /\ i = Min(Where(Reports0, Malformed))
    /\ OfPid(Reports0[1], ReqPid)
    /\ Reports0[2]["units"] # UNITS_BYTES
    /\ Reports0[2]["kind"] \notin {KIND_NONHEAP, KIND_HEAP}
    /\ StoppedAt(2)

===========================================================================
